---- MODULE Spec2Model ----
(***************************************************************************)
(* Geometry analysis and aggregation functions of backend/app/main.py:     *)
(* extract_layers, calculate_bounding_box, extract_measurements and        *)
(* extract_preview_geometry, applied to a parsed drawing document.         *)
(*                                                                         *)
(* Numbers.  Coordinates are integers.  Lengths and areas are Python       *)
(* floats in the source; here they are fixed-point integers counting       *)
(* units of 10^-(Digits+2), so that round(x, 4) is a real rounding and     *)
(* math.sqrt is computed digit by digit (truncated at the last unit).      *)
(*                                                                         *)
(* Read failures.  The parser library is not part of the repository.  An   *)
(* entity's kind tag and layer name are always readable (the source reads  *)
(* them outside every try block); an entity whose field ok is FALSE raises *)
(* on the first read of its kind-specific payload.                         *)
(***************************************************************************)
EXTENDS Integers, Sequences, FiniteSets, TLC

VARIABLES
    doc,      \* the parsed document handed to the functions
    call,     \* the function called last, "idle" before a call and after its return
    extents,  \* what the library's extents query did during that call
    ret,      \* what the call returned, or that it raised
    log,      \* the lines the call printed
    file_storage,  \* the module's dict of file metadata, by file id
    disk,          \* the files of UPLOAD_DIR, by path
    response,      \* the response to the request handled by the last step
    uploaded       \* history: ids a successful upload returned and no delete removed since

vars == <<doc, call, extents, ret, log, file_storage, disk, response, uploaded>>

engineVars == <<doc, call, extents, ret, log>>
storeVars == <<file_storage, disk, response, uploaded>>

(***************************************************************************)
(* Bounds of the checked input space.                                      *)
(***************************************************************************)
MaxEntities == 2
MaxFiles == 2
MaxVerts == 3
MaxCoord == 1

(***************************************************************************)
(* Fixed-point numbers.                                                    *)
(***************************************************************************)
Digits == 4
Scale == 10 ^ (Digits + 2)
RoundStep == Scale \div (10 ^ Digits)

Abs(x) == IF x < 0 THEN -x ELSE x

\* round(x, 4): to the nearest multiple of 10^-4, ties to even.
Round4(x) ==
    LET q == x \div RoundStep
        r == x % RoundStep
    IN  IF 2 * r > RoundStep \/ (2 * r = RoundStep /\ q % 2 = 1)
        THEN (q + 1) * RoundStep
        ELSE q * RoundStep

RECURSIVE SqrtDigits(_, _, _)
SqrtDigits(p, rem, k) ==
    IF k = 0 THEN p
    ELSE LET r100 == rem * 100
             x == CHOOSE c \in 0..9 :
                     /\ (20 * p + c) * c <= r100
                     /\ (c = 9 \/ (20 * p + c + 1) * (c + 1) > r100)
         IN  SqrtDigits(10 * p + x, r100 - (20 * p + x) * x, k - 1)

\* math.sqrt(n) for an integer n >= 0, in fixed-point units.
Sqrt(n) ==
    LET ip == CHOOSE c \in 0..n : c * c <= n /\ (c + 1) * (c + 1) > n
    IN  SqrtDigits(ip, n - ip * ip, Digits + 2)

\* math.sqrt((x2 - x1)**2 + (y2 - y1)**2)
Dist(a, b) == Sqrt((b[1] - a[1]) * (b[1] - a[1]) + (b[2] - a[2]) * (b[2] - a[2]))

(***************************************************************************)
(* Documents: an entity sequence (the modelspace) and a layer table.       *)
(***************************************************************************)
\* An optional attribute is <<>> when the entity does not expose it, <<v>> when it does.
Absent == <<>>
Some(v) == <<v>>
NoPoint == <<0, 0>>

Entity(kind, layer, color, ok, p, q, points, closed, value, defpoint) ==
    [kind |-> kind, layer |-> layer, color |-> color, ok |-> ok, p |-> p, q |-> q,
     points |-> points, closed |-> closed, value |-> value, defpoint |-> defpoint]

Line(layer, color, ok, p, q) ==
    Entity("LINE", layer, color, ok, p, q, <<>>, FALSE, 0, Absent)

LwPolyline(layer, color, ok, points, closed) ==
    Entity("LWPOLYLINE", layer, color, ok, NoPoint, NoPoint, points, closed, 0, Absent)

\* CIRCLE, ARC, TEXT, MTEXT: a position (center or insert) and a size (radius or
\* height); angles, text and rotation are carried opaquely and not modelled.
Shape(kind, layer, color, ok, p, value) ==
    Entity(kind, layer, color, ok, p, NoPoint, <<>>, FALSE, value, Absent)

Hatch(layer, ok, area) ==
    Entity("HATCH", layer, Absent, ok, NoPoint, NoPoint, <<>>, FALSE, area, Absent)

Dimension(layer, ok, measurement, defpoint) ==
    Entity("DIMENSION", layer, Absent, ok, NoPoint, NoPoint, <<>>, FALSE, measurement, defpoint)

Other(layer) ==
    Entity("INSERT", layer, Absent, TRUE, NoPoint, NoPoint, <<>>, FALSE, 0, Absent)

Layer(name, color, off) == [name |-> name, color |-> color, off |-> off]

Document(entities, layers) == [entities |-> entities, layers |-> layers]

(***************************************************************************)
(* get_color_name                                                          *)
(***************************************************************************)
color_names ==
    <<"ByBlock", "Red", "Yellow", "Green", "Cyan", "Blue", "Magenta", "White/Black",
      "Dark Gray", "Light Gray", "Light Red", "Light Yellow", "Light Green",
      "Light Cyan", "Light Blue", "Light Magenta">>

get_color_name(color_index) ==
    IF color_index \in 0..15 THEN color_names[color_index + 1]
    ELSE <<"Color", color_index>>

(***************************************************************************)
(* extract_layers                                                          *)
(***************************************************************************)
Raised == [status |-> "raised"]

\* Index of the vertex after i, wrapping around: (i + 1) % len(points), 1-based.
NextIndex(points, i) == (i % Len(points)) + 1

RECURSIVE EdgeLengthSum(_, _)
EdgeLengthSum(points, i) ==
    IF i > Len(points) THEN 0
    ELSE Dist(points[i], points[NextIndex(points, i)]) + EdgeLengthSum(points, i + 1)

RECURSIVE ShoelaceSum(_, _)
ShoelaceSum(points, i) ==
    IF i > Len(points) THEN 0
    ELSE LET a == points[i]
             b == points[NextIndex(points, i)]
         IN  (a[1] * b[2]) - (b[1] * a[2]) + ShoelaceSum(points, i + 1)

\* PolylineLength with the closing edge left out of a polyline that is not closed.
PolylineLengthOpenPath(e) ==
    IF Len(e.points) > 1
    THEN EdgeLengthSum(e.points, 1)
         - (IF e.closed THEN 0 ELSE Dist(e.points[Len(e.points)], e.points[1]))
    ELSE 0

\* What a readable LWPOLYLINE adds to layer_line_lengths.
PolylineLength(e) ==
    IF Len(e.points) > 1 THEN EdgeLengthSum(e.points, 1) ELSE 0

\* PolylineArea without abs().
PolylineAreaSigned(e) ==
    IF Len(e.points) > 1 /\ e.closed
    THEN (ShoelaceSum(e.points, 1) * Scale) \div 2
    ELSE 0

\* What a readable LWPOLYLINE adds to layer_closed_areas: abs(area) / 2 if closed.
PolylineArea(e) ==
    IF Len(e.points) > 1 /\ e.closed
    THEN (Abs(ShoelaceSum(e.points, 1)) * Scale) \div 2
    ELSE 0

\* What a HATCH adds to layer_closed_areas; a failed read of total_area is passed over.
HatchArea(e) == IF e.ok THEN e.value ELSE 0

\* Whether the loop body of extract_layers raises on entity e.
LayerReadRaises(e) == e.kind \in {"LINE", "LWPOLYLINE"} /\ ~e.ok

EmptyBuckets == [raised |-> FALSE, counts |-> <<>>, lengths |-> <<>>, areas |-> <<>>]

\* dict.get(name, default)
Get(dict, name, default) == IF name \in DOMAIN dict THEN dict[name] ELSE default

Put(dict, name, v) == [k \in DOMAIN dict \cup {name} |-> IF k = name THEN v ELSE dict[k]]

\* One iteration of the entity loop of extract_layers.
CountEntity(acc, e) ==
    LET name == e.layer
        counts == Put(acc.counts, name, Get(acc.counts, name, 0) + 1)
        len0 == Get(acc.lengths, name, 0)
        area0 == Get(acc.areas, name, 0)
    IN  IF LayerReadRaises(e)
        THEN [acc EXCEPT !.raised = TRUE]
        ELSE [raised |-> FALSE,
              counts |-> counts,
              lengths |-> Put(acc.lengths, name,
                              len0 + (IF e.kind = "LINE" THEN Dist(e.p, e.q)
                                      ELSE IF e.kind = "LWPOLYLINE" THEN PolylineLength(e)
                                      ELSE 0)),
              areas |-> Put(acc.areas, name,
                            area0 + (IF e.kind = "LWPOLYLINE" THEN PolylineArea(e)
                                     ELSE IF e.kind = "HATCH" THEN HatchArea(e)
                                     ELSE 0))]

RECURSIVE CountEntities(_, _, _)
CountEntities(entities, i, acc) ==
    IF i > Len(entities) \/ acc.raised THEN acc
    ELSE CountEntities(entities, i + 1, CountEntity(acc, entities[i]))

\* The LayerInfo built for one layer of the layer table.
LayerInfo(layer, acc) ==
    [name |-> layer.name,
     color |-> layer.color,
     color_name |-> get_color_name(layer.color),
     visible |-> ~layer.off,
     entity_count |-> Get(acc.counts, layer.name, 0),
     line_length |-> Round4(Get(acc.lengths, layer.name, 0)),
     closed_area |-> Round4(Get(acc.areas, layer.name, 0))]

\* LayerRows over the layers that have a bucket instead of over the layer table.
LayerRowsOfCountedLayers(layers, acc) ==
    LET counted == SelectSeq(layers, LAMBDA l : l.name \in DOMAIN acc.counts)
    IN  [i \in 1..Len(counted) |-> LayerInfo(counted[i], acc)]

LayerRows(layers, acc) == [i \in 1..Len(layers) |-> LayerInfo(layers[i], acc)]

extract_layers(d) ==
    LET acc == CountEntities(d.entities, 1, EmptyBuckets)
    IN  IF acc.raised THEN Raised
        ELSE [status |-> "ok", rows |-> LayerRows(d.layers, acc)]

(***************************************************************************)
(* calculate_bounding_box                                                  *)
(***************************************************************************)
BoundingBox(min_x, min_y, min_z, max_x, max_y, max_z) ==
    [min_x |-> min_x, min_y |-> min_y, min_z |-> min_z,
     max_x |-> max_x, max_y |-> max_y, max_z |-> max_z,
     width |-> max_x - min_x, height |-> max_y - min_y, depth |-> max_z - min_z]

ZeroBox ==
    [min_x |-> 0, min_y |-> 0, min_z |-> 0, max_x |-> 0, max_y |-> 0, max_z |-> 0,
     width |-> 0, height |-> 0, depth |-> 0]

Min(S) == CHOOSE x \in S : \A y \in S : x <= y
Max(S) == CHOOSE x \in S : \A y \in S : x >= y

Range(seq) == {seq[i] : i \in DOMAIN seq}

\* EntityPoints that forgets the end point of a line.
EntityPointsStartOnly(e) ==
    IF ~e.ok THEN <<>>
    ELSE IF e.kind = "LINE" THEN <<e.p>>
    ELSE IF e.kind = "LWPOLYLINE" THEN e.points
    ELSE <<>>

\* The points one entity adds to all_points in the fallback scan; a read that
\* raises is caught and the entity passed over.
EntityPoints(e) ==
    IF ~e.ok THEN <<>>
    ELSE IF e.kind = "LINE" THEN <<e.p, e.q>>
    ELSE IF e.kind = "LWPOLYLINE" THEN e.points
    ELSE <<>>

RECURSIVE FallbackPoints(_, _)
FallbackPoints(entities, i) ==
    IF i > Len(entities) THEN <<>>
    ELSE EntityPoints(entities[i]) \o FallbackPoints(entities, i + 1)

\* The box around a non-empty point sequence; z is 0 in the fallback.
BoxAround(all_points) ==
    BoundingBox(Min({pt[1] : pt \in Range(all_points)}),
                Min({pt[2] : pt \in Range(all_points)}),
                0,
                Max({pt[1] : pt \in Range(all_points)}),
                Max({pt[2] : pt \in Range(all_points)}),
                0)

\* The parser library's extents query over the modelspace: it raises, reports no
\* data, or reports extmin and extmax of the geometry it finds.
ExtentsOutcomes == {"raises", "nodata", "extents"}

LibraryGeometry(d) ==
    UNION {IF ~d.entities[i].ok THEN {}
           ELSE IF d.entities[i].kind = "LINE" THEN {d.entities[i].p, d.entities[i].q}
           ELSE IF d.entities[i].kind = "LWPOLYLINE" THEN Range(d.entities[i].points)
           ELSE {} : i \in DOMAIN d.entities}

LibraryExtents(d, outcome) ==
    IF outcome = "raises" THEN [kind |-> "raises"]
    ELSE IF outcome = "nodata" \/ LibraryGeometry(d) = {} THEN [kind |-> "nodata"]
    ELSE [kind |-> "extents",
          extmin |-> <<Min({pt[1] : pt \in LibraryGeometry(d)}),
                       Min({pt[2] : pt \in LibraryGeometry(d)}), 0>>,
          extmax |-> <<Max({pt[1] : pt \in LibraryGeometry(d)}),
                       Max({pt[2] : pt \in LibraryGeometry(d)}), 0>>]

\* FallbackBox without the test for an empty point list: min() of nothing raises.
FallbackBoxNoSentinel(d) ==
    LET all_points == FallbackPoints(d.entities, 1)
    IN  IF all_points # <<>> THEN BoxAround(all_points) ELSE [error |-> "ValueError"]

FallbackBox(d) ==
    LET all_points == FallbackPoints(d.entities, 1)
    IN  IF all_points # <<>> THEN BoxAround(all_points) ELSE ZeroBox

\* Returns the box and the lines printed.
calculate_bounding_box(d, outcome) ==
    LET ext == LibraryExtents(d, outcome)
    IN  IF ext.kind = "extents"
        THEN [box |-> BoundingBox(ext.extmin[1], ext.extmin[2], ext.extmin[3],
                                  ext.extmax[1], ext.extmax[2], ext.extmax[3]),
              printed |-> <<>>]
        ELSE [box |-> FallbackBox(d),
              printed |-> IF ext.kind = "raises" THEN <<"Error calculating bounding box">>
                          ELSE <<>>]

(***************************************************************************)
(* extract_measurements                                                    *)
(***************************************************************************)
RECURSIVE SumLineLength(_, _)
SumLineLength(rows, i) ==
    IF i > Len(rows) THEN 0 ELSE rows[i].line_length + SumLineLength(rows, i + 1)

\* SumClosedArea that adds up line_length.
SumClosedAreaOfLengths(rows, i) == SumLineLength(rows, i)

RECURSIVE SumClosedArea(_, _)
SumClosedArea(rows, i) ==
    IF i > Len(rows) THEN 0 ELSE rows[i].closed_area + SumClosedArea(rows, i + 1)

\* dim_data of a Dimension entity whose reads succeed.
DimData(e) ==
    LET required == [type |-> e.kind, layer |-> e.layer, actual_measurement |-> e.value]
    IN  IF e.defpoint = Absent THEN required
        ELSE [type |-> e.kind, layer |-> e.layer, actual_measurement |-> e.value,
              defpoint |-> e.defpoint[1]]

\* ExtractDimensions with the try around the loop: the first failure ends the loop.
RECURSIVE ExtractDimensionsAbortOnError(_, _)
ExtractDimensionsAbortOnError(entities, i) ==
    IF i > Len(entities) THEN [dimensions |-> <<>>, printed |-> <<>>]
    ELSE LET e == entities[i]
             rest == ExtractDimensionsAbortOnError(entities, i + 1)
         IN  IF e.kind # "DIMENSION" THEN rest
             ELSE IF e.ok
             THEN [dimensions |-> <<DimData(e)>> \o rest.dimensions, printed |-> rest.printed]
             ELSE [dimensions |-> <<>>, printed |-> <<"Error extracting dimension">>]

\* The dimension loop: the records appended and the lines printed.
RECURSIVE ExtractDimensions(_, _)
ExtractDimensions(entities, i) ==
    IF i > Len(entities) THEN [dimensions |-> <<>>, printed |-> <<>>]
    ELSE LET e == entities[i]
             rest == ExtractDimensions(entities, i + 1)
         IN  IF e.kind # "DIMENSION" THEN rest
             ELSE IF e.ok
             THEN [dimensions |-> <<DimData(e)>> \o rest.dimensions, printed |-> rest.printed]
             ELSE [dimensions |-> rest.dimensions,
                   printed |-> <<"Error extracting dimension">> \o rest.printed]

\* Returns the Measurements (or the raise of extract_layers) and the lines printed.
extract_measurements(d, outcome) ==
    LET total_entities == Len(d.entities)
        bb == calculate_bounding_box(d, outcome)
        layers == extract_layers(d)
        dims == ExtractDimensions(d.entities, 1)
    IN  IF layers.status = "raised"
        THEN [result |-> Raised, printed |-> bb.printed]
        ELSE [result |-> [status |-> "ok",
                          total_entities |-> total_entities,
                          bounding_box |-> bb.box,
                          total_line_length |-> Round4(SumLineLength(layers.rows, 1)),
                          total_closed_area |-> Round4(SumClosedArea(layers.rows, 1)),
                          dimensions |-> dims.dimensions],
              printed |-> bb.printed \o dims.printed]

(***************************************************************************)
(* extract_preview_geometry                                                *)
(***************************************************************************)
PreviewKinds == {"LINE", "LWPOLYLINE", "CIRCLE", "ARC", "TEXT", "MTEXT"}

DefaultColor == 7

\* geom_data["data"] for an entity of a projected kind whose reads succeed.
GeomData(e) ==
    IF e.kind = "LINE" THEN [start |-> e.p, end |-> e.q]
    ELSE IF e.kind = "LWPOLYLINE" THEN [points |-> e.points, closed |-> e.closed]
    ELSE IF e.kind \in {"CIRCLE", "ARC"} THEN [center |-> e.p, radius |-> e.value]
    ELSE [position |-> e.p, height |-> e.value]

GeometryEntity(e) ==
    [type |-> e.kind,
     layer |-> e.layer,
     color |-> IF e.color = Absent THEN DefaultColor ELSE e.color[1],
     data |-> GeomData(e)]

\* Whether the projection of e raises inside the try block.
ProjectionRaises(e) == e.kind \in PreviewKinds /\ ~e.ok

\* ProjectEntities with the try around the loop: the first failure ends the loop.
RECURSIVE ProjectEntitiesAbortOnError(_, _)
ProjectEntitiesAbortOnError(entities, i) ==
    IF i > Len(entities) THEN [entities |-> <<>>, printed |-> <<>>]
    ELSE LET e == entities[i]
             rest == ProjectEntitiesAbortOnError(entities, i + 1)
         IN  IF ProjectionRaises(e)
             THEN [entities |-> <<>>, printed |-> <<"Error processing entity">>]
             ELSE IF e.kind \in PreviewKinds
             THEN [entities |-> <<GeometryEntity(e)>> \o rest.entities, printed |-> rest.printed]
             ELSE rest

\* The entity loop: the records appended and the lines printed.
RECURSIVE ProjectEntities(_, _)
ProjectEntities(entities, i) ==
    IF i > Len(entities) THEN [entities |-> <<>>, printed |-> <<>>]
    ELSE LET e == entities[i]
             rest == ProjectEntities(entities, i + 1)
         IN  IF ProjectionRaises(e)
             THEN [entities |-> rest.entities,
                   printed |-> <<"Error processing entity">> \o rest.printed]
             ELSE IF e.kind \in PreviewKinds
             THEN [entities |-> <<GeometryEntity(e)>> \o rest.entities, printed |-> rest.printed]
             ELSE rest

extract_preview_geometry(d, outcome) ==
    LET bb == calculate_bounding_box(d, outcome)
        projected == ProjectEntities(d.entities, 1)
    IN  [result |-> [status |-> "ok", bounding_box |-> bb.box, entities |-> projected.entities],
         printed |-> bb.printed \o projected.printed]

(***************************************************************************)
(* The documents checked.                                                  *)
(***************************************************************************)
LayerNames == {"A", "B"}

\* Layer "A" is red and on, layer "B" has a colour outside the palette and is off.
TableLayer(name) == IF name = "A" THEN Layer("A", 1, FALSE) ELSE Layer("B", 200, TRUE)

SeqsUpTo(S, n) == UNION {[1..k -> S] : k \in 0..n}

IsInjective(seq) == \A i, j \in DOMAIN seq : seq[i] = seq[j] => i = j

\* Layer tables: layer names are unique.
Tables ==
    {[i \in DOMAIN names |-> TableLayer(names[i])] :
        names \in {s \in SeqsUpTo(LayerNames, Cardinality(LayerNames)) : IsInjective(s)}}

P0 == <<0, 0>>
P1 == <<3, 4>>
P2 == <<-1, 2>>

\* Entities of every kind, readable and not, on one layer.
AllKindsOn(layer) ==
    {Line(layer, Absent, TRUE, P0, P1), Line(layer, Some(3), TRUE, P2, P1),
     Line(layer, Absent, FALSE, NoPoint, NoPoint),
     LwPolyline(layer, Absent, TRUE, <<P0, P1, P2>>, TRUE),
     LwPolyline(layer, Some(3), TRUE, <<P0, P1, P2>>, FALSE),
     LwPolyline(layer, Absent, FALSE, <<>>, FALSE),
     Hatch(layer, TRUE, 1234567), Hatch(layer, FALSE, 0),
     Dimension(layer, TRUE, 5 * Scale, Absent), Dimension(layer, TRUE, 2 * Scale, Some(P1)),
     Dimension(layer, FALSE, 0, Absent),
     Other(layer)}
    \cup {Shape(kind, layer, Absent, ok, P1, 2 * Scale) :
            kind \in {"CIRCLE", "MTEXT"}, ok \in BOOLEAN}
    \cup {Shape(kind, layer, Some(3), TRUE, P2, Scale) : kind \in {"ARC", "TEXT"}}

\* Entities that feed the statistics of a second layer.
MeasuredOn(layer) ==
    {Line(layer, Absent, TRUE, P0, P2), Line(layer, Absent, FALSE, NoPoint, NoPoint),
     LwPolyline(layer, Absent, TRUE, <<P2, P1, P0>>, TRUE),
     Hatch(layer, TRUE, 2 * Scale), Dimension(layer, TRUE, 5 * Scale, Absent),
     Other(layer)}

SampleEntities == AllKindsOn("A") \cup MeasuredOn("B")

MixedDocuments ==
    {Document(entities, layers) :
        entities \in SeqsUpTo(SampleEntities, MaxEntities),
        layers \in Tables}

Grid == (0..MaxCoord) \X (0..MaxCoord)

\* One readable polyline over the grid, on a layer of the table.
PolylineDocuments ==
    {Document(<<LwPolyline("A", Absent, TRUE, points, closed)>>, <<TableLayer("A")>>) :
        points \in SeqsUpTo(Grid, MaxVerts), closed \in BOOLEAN}

Documents == MixedDocuments \cup PolylineDocuments

(***************************************************************************)
(* The state machine: a caller applies one function to the document and    *)
(* takes its result.                                                       *)
(***************************************************************************)
NoResult == [status |-> "none"]

NoFileId == ""
NoResponse == [handler |-> "none", file_id |-> NoFileId, status |-> 0]

\* The module as loaded: file_storage = {} and no request handled yet.
InitStore ==
    /\ file_storage = <<>>
    /\ disk = <<>>
    /\ response = NoResponse
    /\ uploaded = {}

Init ==
    /\ doc \in Documents
    /\ call = "idle"
    /\ extents = "none"
    /\ ret = NoResult
    /\ log = <<>>
    /\ InitStore

ExtractLayers ==
    /\ call = "idle"
    /\ call' = "extract_layers"
    /\ extents' = "none"
    /\ ret' = extract_layers(doc)
    /\ log' = <<>>
    /\ UNCHANGED <<doc, storeVars>>

CalculateBoundingBox ==
    /\ call = "idle"
    /\ \E o \in ExtentsOutcomes :
        LET r == calculate_bounding_box(doc, o)
        IN  /\ call' = "calculate_bounding_box"
            /\ extents' = LibraryExtents(doc, o).kind
            /\ ret' = [status |-> "ok", bounding_box |-> r.box]
            /\ log' = r.printed
    /\ UNCHANGED <<doc, storeVars>>

ExtractMeasurements ==
    /\ call = "idle"
    /\ \E o \in ExtentsOutcomes :
        LET r == extract_measurements(doc, o)
        IN  /\ call' = "extract_measurements"
            /\ extents' = LibraryExtents(doc, o).kind
            /\ ret' = r.result
            /\ log' = r.printed
    /\ UNCHANGED <<doc, storeVars>>

ExtractPreviewGeometry ==
    /\ call = "idle"
    /\ \E o \in ExtentsOutcomes :
        LET r == extract_preview_geometry(doc, o)
        IN  /\ call' = "extract_preview_geometry"
            /\ extents' = LibraryExtents(doc, o).kind
            /\ ret' = r.result
            /\ log' = r.printed
    /\ UNCHANGED <<doc, storeVars>>

\* The caller takes the result; the functions keep no state between calls.
Return ==
    /\ call # "idle"
    /\ call' = "idle"
    /\ extents' = "none"
    /\ ret' = NoResult
    /\ log' = <<>>
    /\ UNCHANGED <<doc, storeVars>>

Next ==
    \/ ExtractLayers
    \/ CalculateBoundingBox
    \/ ExtractMeasurements
    \/ ExtractPreviewGeometry
    \/ Return

Spec == Init /\ [][Next]_vars

(***************************************************************************)
(* The file store: upload_file, get_layers, get_measurements, get_preview, *)
(* list_files and delete_file over file_storage and UPLOAD_DIR.  Each      *)
(* handler runs to completion in one step.                                 *)
(***************************************************************************)
IdNames == <<"id1", "id2", "id3", "id4">>

\* The values uuid.uuid4() can give.
FileIds == {IdNames[i] : i \in 1..MaxFiles}

\* Uploaded file names, as os.path.splitext splits them: <<root, ext>>.
Filenames ==
    {<<"", "">>, <<"plan", "">>, <<"plan", ".txt">>, <<"plan", ".dxf">>,
     <<"site", ".DXF">>, <<"site", ".dwg">>}

\* What the uploaded bytes are to the parser.
Contents == {"drawing", "garbage"}

\* str.lower() on an extension.
Lower(ext) ==
    IF ext = ".DXF" THEN ".dxf" ELSE IF ext = ".DWG" THEN ".dwg" ELSE ext

\* ext[1:].upper() on a lower-case extension.
FileTypeOf(ext) == IF ext = ".dxf" THEN "DXF" ELSE IF ext = ".dwg" THEN "DWG" ELSE "TXT"

\* f"{file_id}.{file_info.file_type.lower()}" under UPLOAD_DIR.
StoredPath(file_id, file_info) ==
    <<file_id, IF file_info.file_type = "DXF" THEN ".dxf"
               ELSE IF file_info.file_type = "DWG" THEN ".dwg"
               ELSE ".txt">>

\* FileInfo; file_size and upload_time are not modelled.
FileInfo(id, filename, file_type) ==
    [id |-> id, filename |-> filename, file_type |-> file_type]

Remove(dict, key) == [k \in DOMAIN dict \ {key} |-> dict[k]]

Response(handler, file_id, status) ==
    [handler |-> handler, file_id |-> file_id, status |-> status]

Handled(storage, dsk, resp) == [storage |-> storage, disk |-> dsk, response |-> resp]

\* upload_file that records the metadata before the file is written.
upload_file_stores_first(storage, dsk, filename, content, file_id, write_ok) ==
    LET ext == Lower(filename[2])
        stored == Put(storage, file_id, FileInfo(file_id, filename, FileTypeOf(ext)))
    IN  IF filename = <<"", "">> THEN Handled(storage, dsk, Response("upload_file", NoFileId, 400))
        ELSE IF ext \notin {".dxf", ".dwg"}
        THEN Handled(storage, dsk, Response("upload_file", NoFileId, 400))
        ELSE IF ~write_ok
        THEN Handled(stored, dsk, Response("upload_file", NoFileId, 500))
        ELSE Handled(stored, Put(dsk, <<file_id, ext>>, content),
                     Response("upload_file", file_id, 200))

\* upload_file: file_id is the uuid drawn, write_ok whether the file was written
\* and measured without an exception.
upload_file(storage, dsk, filename, content, file_id, write_ok) ==
    LET ext == Lower(filename[2])
    IN  IF filename = <<"", "">> THEN Handled(storage, dsk, Response("upload_file", NoFileId, 400))
        ELSE IF ext \notin {".dxf", ".dwg"}
        THEN Handled(storage, dsk, Response("upload_file", NoFileId, 400))
        ELSE IF ~write_ok
        THEN Handled(storage, dsk, Response("upload_file", NoFileId, 500))
        ELSE Handled(Put(storage, file_id, FileInfo(file_id, filename, FileTypeOf(ext))),
                     Put(dsk, <<file_id, ext>>, content),
                     Response("upload_file", file_id, 200))

\* parse_dxf_file followed by the extraction: whether the handler's try block ends
\* without an exception.  A .dwg file and a file the parser rejects give None.
Processes(path, content) == path[2] = ".dxf" /\ content = "drawing"

\* get_layers, get_measurements and get_preview share this shape.
read_file(handler, storage, dsk, file_id) ==
    IF file_id \notin DOMAIN storage
    THEN Handled(storage, dsk, Response(handler, file_id, 404))
    ELSE LET file_path == StoredPath(file_id, storage[file_id])
         IN  IF file_path \notin DOMAIN dsk
             THEN Handled(storage, dsk, Response(handler, file_id, 404))
             ELSE IF Processes(file_path, dsk[file_path])
             THEN Handled(storage, dsk, Response(handler, file_id, 200))
             ELSE Handled(storage, dsk, Response(handler, file_id, 500))

\* delete_file: remove_ok is whether os.remove ends without an exception.
delete_file(storage, dsk, file_id, remove_ok) ==
    IF file_id \notin DOMAIN storage
    THEN Handled(storage, dsk, Response("delete_file", file_id, 404))
    ELSE LET file_path == StoredPath(file_id, storage[file_id])
         IN  IF file_path \in DOMAIN dsk /\ ~remove_ok
             THEN Handled(storage, dsk, Response("delete_file", file_id, 500))
             ELSE Handled(Remove(storage, file_id), Remove(dsk, file_path),
                          Response("delete_file", file_id, 200))

\* The history kept beside the handlers, from the responses alone.
Track(ids, resp) ==
    IF resp.handler = "upload_file" /\ resp.status = 200 THEN ids \cup {resp.file_id}
    ELSE IF resp.handler = "delete_file" /\ resp.status = 200 THEN ids \ {resp.file_id}
    ELSE ids

Answer(r) ==
    /\ file_storage' = r.storage
    /\ disk' = r.disk
    /\ response' = r.response
    /\ uploaded' = Track(uploaded, r.response)
    /\ UNCHANGED engineVars

\* uuid4 draws an id that names no stored file.
UnusedIds == {id \in FileIds : id \notin DOMAIN file_storage /\ \A path \in DOMAIN disk : path[1] # id}

UploadFile ==
    \E filename \in Filenames, content \in Contents, file_id \in UnusedIds, write_ok \in BOOLEAN :
        Answer(upload_file(file_storage, disk, filename, content, file_id, write_ok))

GetLayers ==
    \E file_id \in FileIds : Answer(read_file("get_layers", file_storage, disk, file_id))

GetMeasurements ==
    \E file_id \in FileIds : Answer(read_file("get_measurements", file_storage, disk, file_id))

GetPreview ==
    \E file_id \in FileIds : Answer(read_file("get_preview", file_storage, disk, file_id))

ListFiles ==
    Answer(Handled(file_storage, disk, Response("list_files", NoFileId, 200)))

DeleteFile ==
    \E file_id \in FileIds, remove_ok \in BOOLEAN :
        Answer(delete_file(file_storage, disk, file_id, remove_ok))

\* A file of UPLOAD_DIR (/tmp/uploads) disappears outside the handlers.
FileLost ==
    /\ \E path \in DOMAIN disk : disk' = Remove(disk, path)
    /\ response' = NoResponse
    /\ UNCHANGED <<file_storage, uploaded, engineVars>>

NextStore ==
    \/ UploadFile
    \/ GetLayers
    \/ GetMeasurements
    \/ GetPreview
    \/ ListFiles
    \/ DeleteFile
    \/ FileLost

InitServer ==
    /\ doc = Document(<<>>, <<>>)
    /\ call = "idle"
    /\ extents = "none"
    /\ ret = NoResult
    /\ log = <<>>
    /\ InitStore

SpecStore == InitServer /\ [][NextStore]_vars

(***************************************************************************)
(* Helpers of the properties below.                                        *)
(***************************************************************************)
Returned(name) == call = name /\ ret.status = "ok"

EntitiesOnLayer(name) == {j \in DOMAIN doc.entities : doc.entities[j].layer = name}

RECURSIVE SeqSum(_)
SeqSum(numbers) ==
    IF numbers = <<>> THEN 0
    ELSE numbers[Len(numbers)] + SeqSum(SubSeq(numbers, 1, Len(numbers) - 1))

Within(pt, box) ==
    /\ box.min_x <= pt[1] /\ pt[1] <= box.max_x
    /\ box.min_y <= pt[2] /\ pt[2] <= box.max_y

IsReadable(e, kind) == e.kind = kind /\ e.ok

(***************************************************************************)
(* C1.  Whenever extract_layers returns, it returns exactly one row per    *)
(* layer of the layer table, in the table's order; each row's entity_count *)
(* is the number of modelspace entities, of any kind, on that layer; and a *)
(* table layer no entity references has entity_count 0, line_length 0 and  *)
(* closed_area 0.                                                          *)
(***************************************************************************)
C1_OneRowPerTableLayer ==
    Returned("extract_layers") =>
        /\ Len(ret.rows) = Len(doc.layers)
        /\ \A i \in DOMAIN doc.layers :
            /\ ret.rows[i].name = doc.layers[i].name
            /\ ret.rows[i].entity_count = Cardinality(EntitiesOnLayer(doc.layers[i].name))
            /\ EntitiesOnLayer(doc.layers[i].name) = {} =>
                /\ ret.rows[i].entity_count = 0
                /\ ret.rows[i].line_length = 0
                /\ ret.rows[i].closed_area = 0

\* Two table layers, the first referenced by no entity and the second by two.
C1_Witness ==
    /\ Returned("extract_layers")
    /\ Len(doc.layers) = 2
    /\ ret.rows[1].entity_count = 0
    /\ ret.rows[2].entity_count = 2
    /\ ret.rows[2].line_length > 0

(***************************************************************************)
(* C2.  When an entity references a layer name that is absent from the     *)
(* layer table, extract_layers still returns a row for that layer name.    *)
(***************************************************************************)
C2_EveryReferencedLayerHasRow ==
    Returned("extract_layers") =>
        \A j \in DOMAIN doc.entities :
            \E i \in DOMAIN ret.rows : ret.rows[i].name = doc.entities[j].layer

(***************************************************************************)
(* C3.  The total_line_length returned by extract_measurements is the      *)
(* 4-decimal rounding of the sum of line_length over the rows that         *)
(* extract_layers returns for the same document, and total_closed_area is  *)
(* the rounded sum of the rows' closed_area.                               *)
(***************************************************************************)
C3_TotalsAreRoundedRowSums ==
    Returned("extract_measurements") =>
        LET rows == extract_layers(doc).rows
        IN  /\ ret.total_line_length =
                 Round4(SeqSum([i \in DOMAIN rows |-> rows[i].line_length]))
            /\ ret.total_closed_area =
                 Round4(SeqSum([i \in DOMAIN rows |-> rows[i].closed_area]))

\* Two rows with different non-zero lengths and areas.
C3_Witness ==
    /\ Returned("extract_measurements")
    /\ Len(doc.layers) = 2
    /\ LET rows == extract_layers(doc).rows
       IN  /\ rows[1].line_length > 0 /\ rows[2].line_length > 0
           /\ rows[1].closed_area > 0 /\ rows[2].closed_area > 0
           /\ rows[1].line_length # rows[1].closed_area
    /\ ret.total_line_length > 0
    /\ ret.total_closed_area > 0

(***************************************************************************)
(* C4.  The box returned by calculate_bounding_box contains every endpoint *)
(* of every readable Line and every vertex of every readable Polyline of   *)
(* the document, and its width is max_x - min_x and its height is          *)
(* max_y - min_y, both non-negative.                                       *)
(***************************************************************************)
C4_BoxContainsPoints ==
    Returned("calculate_bounding_box") =>
        LET box == ret.bounding_box
        IN  /\ \A j \in DOMAIN doc.entities :
                LET e == doc.entities[j]
                IN  /\ IsReadable(e, "LINE") => Within(e.p, box) /\ Within(e.q, box)
                    /\ IsReadable(e, "LWPOLYLINE") =>
                        \A k \in DOMAIN e.points : Within(e.points[k], box)
            /\ box.width = box.max_x - box.min_x /\ box.width >= 0
            /\ box.height = box.max_y - box.min_y /\ box.height >= 0

\* The fallback scan over a line and a polyline, giving a box that is not flat.
C4_Witness ==
    /\ Returned("calculate_bounding_box")
    /\ extents = "raises"
    /\ \E j \in DOMAIN doc.entities : IsReadable(doc.entities[j], "LINE")
    /\ \E j \in DOMAIN doc.entities : IsReadable(doc.entities[j], "LWPOLYLINE")
    /\ ret.bounding_box.min_x < 0
    /\ ret.bounding_box.width > 0
    /\ ret.bounding_box.height > 0

(***************************************************************************)
(* C5.  For a document with no entities and no layers,                     *)
(* calculate_bounding_box returns a box whose nine fields are all zero,    *)
(* extract_layers returns an empty sequence and extract_measurements       *)
(* returns total_entities = 0; and whenever neither the extents query nor  *)
(* the fallback scan yields a point, calculate_bounding_box returns the    *)
(* all-zero box.                                                           *)
(***************************************************************************)
AllZeroBox ==
    [min_x |-> 0, min_y |-> 0, min_z |-> 0, max_x |-> 0, max_y |-> 0, max_z |-> 0,
     width |-> 0, height |-> 0, depth |-> 0]

IsEmptyDocument == doc.entities = <<>> /\ doc.layers = <<>>

\* No readable line and no readable polyline with a vertex.
ScanYieldsNoPoint ==
    \A j \in DOMAIN doc.entities :
        /\ ~IsReadable(doc.entities[j], "LINE")
        /\ ~(IsReadable(doc.entities[j], "LWPOLYLINE") /\ doc.entities[j].points # <<>>)

C5_EmptyDocumentSentinel ==
    /\ call = "calculate_bounding_box" =>
        /\ ret.status = "ok"
        /\ (extents # "extents" /\ ScanYieldsNoPoint) => ret.bounding_box = AllZeroBox
    /\ IsEmptyDocument =>
        /\ call = "calculate_bounding_box" => ret.bounding_box = AllZeroBox
        /\ call = "extract_layers" => ret.status = "ok" /\ ret.rows = <<>>
        /\ call = "extract_measurements" =>
            /\ ret.status = "ok"
            /\ ret.total_entities = 0
            /\ ret.bounding_box = AllZeroBox

\* The extents query raised over a document that holds entities but no point.
C5_Witness ==
    /\ call = "calculate_bounding_box"
    /\ extents = "raises"
    /\ Len(doc.entities) = 2
    /\ ScanYieldsNoPoint
    /\ ret.bounding_box = AllZeroBox

(***************************************************************************)
(* C6.  In extract_measurements, when reading a required field of a        *)
(* Dimension entity raises, only that dimension's record is dropped: the   *)
(* call still returns, its dimensions list holds one record for every      *)
(* other Dimension entity in document order, and the layer totals and the  *)
(* bounding box are those of the document with that dimension readable.    *)
(***************************************************************************)
DimensionReadRaised ==
    call = "extract_measurements" /\ \E k \in DOMAIN log : log[k] = "Error extracting dimension"

ReadableDimensions == SelectSeq(doc.entities, LAMBDA e : IsReadable(e, "DIMENSION"))

\* The document with every unreadable dimension made readable.
Repaired ==
    Document([j \in DOMAIN doc.entities |->
                 IF doc.entities[j].kind = "DIMENSION"
                 THEN [doc.entities[j] EXCEPT !.ok = TRUE]
                 ELSE doc.entities[j]],
             doc.layers)

C6_BadDimensionOnlyDropsItsRecord ==
    DimensionReadRaised =>
        /\ ret.status = "ok"
        /\ Len(ret.dimensions) = Len(ReadableDimensions)
        /\ \A k \in DOMAIN ret.dimensions :
            /\ ret.dimensions[k].type = "DIMENSION"
            /\ ret.dimensions[k].layer = ReadableDimensions[k].layer
            /\ ret.dimensions[k].actual_measurement = ReadableDimensions[k].value
        /\ LET good == extract_measurements(Repaired, extents).result
           IN  /\ good.status = "ok"
               /\ ret.total_entities = good.total_entities
               /\ ret.total_line_length = good.total_line_length
               /\ ret.total_closed_area = good.total_closed_area
               /\ ret.bounding_box = good.bounding_box

\* An unreadable dimension followed by a readable one.
C6_Witness ==
    /\ DimensionReadRaised
    /\ Len(doc.entities) = 2
    /\ doc.entities[1].kind = "DIMENSION" /\ ~doc.entities[1].ok
    /\ Len(ret.dimensions) = 1

(***************************************************************************)
(* C7.  extract_preview_geometry always returns, and its entity sequence   *)
(* is the order-preserving subsequence of the document's entities made of  *)
(* exactly those whose kind is Line, Polyline, Circle, Arc, Text or MText  *)
(* and whose projection succeeded.                                         *)
(***************************************************************************)
Projectable(e) ==
    e.ok /\ e.kind \in {"LINE", "LWPOLYLINE", "CIRCLE", "ARC", "TEXT", "MTEXT"}

C7_PreviewIsSubsequence ==
    call = "extract_preview_geometry" =>
        LET kept == SelectSeq(doc.entities, Projectable)
        IN  /\ ret.status = "ok"
            /\ Len(ret.entities) = Len(kept)
            /\ \A k \in DOMAIN ret.entities :
                /\ ret.entities[k].type = kept[k].kind
                /\ ret.entities[k].layer = kept[k].layer

\* An entity whose projection fails, followed by one that is projected.
C7_Witness ==
    /\ call = "extract_preview_geometry"
    /\ Len(doc.entities) = 2
    /\ doc.entities[1].kind = "CIRCLE" /\ ~doc.entities[1].ok
    /\ Len(ret.entities) = 1
    /\ log # <<>>

(***************************************************************************)
(* C8.  In extract_layers, a failure to read a field of a single entity    *)
(* never aborts the traversal: the call still returns one row per table    *)
(* layer.                                                                  *)
(***************************************************************************)
C8_ReadFailureNeverAborts ==
    call = "extract_layers" => ret.status = "ok" /\ Len(ret.rows) = Len(doc.layers)

(***************************************************************************)
(* C9.  The closed_area that extract_layers computes is non-negative and   *)
(* is the same for the document with every polyline's vertex sequence      *)
(* reversed; a polyline that is not flagged closed contributes no area.    *)
(***************************************************************************)
Reverse(seq) == [i \in DOMAIN seq |-> seq[Len(seq) + 1 - i]]

Reversed ==
    Document([j \in DOMAIN doc.entities |->
                 [doc.entities[j] EXCEPT !.points = Reverse(@)]],
             doc.layers)

OnlyOpenPolylines ==
    \A j \in DOMAIN doc.entities :
        IsReadable(doc.entities[j], "LWPOLYLINE") /\ ~doc.entities[j].closed

C9_AreaIgnoresWinding ==
    Returned("extract_layers") =>
        /\ \A i \in DOMAIN ret.rows :
            /\ ret.rows[i].closed_area >= 0
            /\ ret.rows[i].closed_area = extract_layers(Reversed).rows[i].closed_area
        /\ OnlyOpenPolylines => \A i \in DOMAIN ret.rows : ret.rows[i].closed_area = 0

\* A closed polyline whose vertices run clockwise, with a non-zero area.
C9_Witness ==
    /\ Returned("extract_layers")
    /\ Len(doc.entities) = 1
    /\ IsReadable(doc.entities[1], "LWPOLYLINE")
    /\ doc.entities[1].closed
    /\ ShoelaceSum(doc.entities[1].points, 1) < 0
    /\ Len(ret.rows) = 1
    /\ ret.rows[1].closed_area > 0

(***************************************************************************)
(* C10.  The length extract_layers adds for a polyline is the sum of the   *)
(* distances of all its wrap-around edges: the path along the vertices     *)
(* plus the edge from the last vertex back to the first, whether or not    *)
(* the polyline is flagged closed.                                         *)
(***************************************************************************)
RECURSIVE PathLength(_)
PathLength(points) ==
    IF Len(points) < 2 THEN 0
    ELSE Dist(points[1], points[2]) + PathLength(Tail(points))

RingLength(points) ==
    IF points = <<>> THEN 0
    ELSE PathLength(points) + Dist(points[Len(points)], points[1])

IsSinglePolyline ==
    /\ Len(doc.entities) = 1
    /\ IsReadable(doc.entities[1], "LWPOLYLINE")
    /\ Len(doc.layers) = 1
    /\ doc.layers[1].name = doc.entities[1].layer

OtherClosedFlag ==
    Document(<<[doc.entities[1] EXCEPT !.closed = ~@]>>, doc.layers)

C10_LengthIncludesClosingEdge ==
    (Returned("extract_layers") /\ IsSinglePolyline) =>
        /\ ret.rows[1].line_length = Round4(RingLength(doc.entities[1].points))
        /\ ret.rows[1].line_length = extract_layers(OtherClosedFlag).rows[1].line_length

\* An open polyline of three vertices that are not on one line.
C10_Witness ==
    /\ Returned("extract_layers")
    /\ IsSinglePolyline
    /\ ~doc.entities[1].closed
    /\ Len(doc.entities[1].points) = 3
    /\ ShoelaceSum(doc.entities[1].points, 1) # 0
    /\ ret.rows[1].line_length > Round4(PathLength(doc.entities[1].points))

(***************************************************************************)
(* C11.  After any sequence of upload, delete and read requests, an id is  *)
(* a key of file_storage if and only if a successful upload returned it    *)
(* and no delete has removed it since; a rejected or failed upload adds no *)
(* entry; and a layers, measurements, preview or delete request for an id  *)
(* that is not a key answers 404 and leaves file_storage unchanged.        *)
(***************************************************************************)
ByIdHandlers == {"get_layers", "get_measurements", "get_preview", "delete_file"}

C11_RequestStep ==
    /\ (response'.handler = "upload_file" /\ response'.status # 200) =>
        file_storage' = file_storage
    /\ (response'.handler \in ByIdHandlers /\ response'.file_id \notin DOMAIN file_storage) =>
        /\ response'.status = 404
        /\ file_storage' = file_storage

C11_StorageLifecycle ==
    /\ [](DOMAIN file_storage = uploaded)
    /\ [][C11_RequestStep]_vars

\* While one uploaded file is stored, a delete request for an id that is not a key
\* has just been answered 404.
C11_Witness ==
    /\ Cardinality(DOMAIN file_storage) = 1
    /\ uploaded = DOMAIN file_storage
    /\ response.handler = "delete_file"
    /\ response.file_id \notin DOMAIN file_storage
    /\ response.status = 404
    /\ \E path \in DOMAIN disk : path[1] \in DOMAIN file_storage

====
